---- MODULE Spec2Model ----
(***************************************************************************)
(* A model of the Etherscan source fetcher (EtherscanFetcher): the         *)
(* constructor's network resolution, the readiness gate and the retry loop *)
(* of getSuccessfulResponse, makeRequest's handling of the response        *)
(* envelope, and the five-way classifier processResult.                    *)
(*                                                                         *)
(* The fetcher runs on a single-threaded event loop: code between two      *)
(* awaits is one atomic step.  Every action below is one such step.        *)
(* Time is a counter of milliseconds; a timer made at time t for d ms is   *)
(* a promise that is resolved at or after t + d, so a promise is           *)
(* represented by its deadline and a continuation awaiting it may run at   *)
(* any time at or after that deadline.                                     *)
(***************************************************************************)
EXTENDS Integers, Sequences, FiniteSets, TLC

VARIABLES
    networkId,      \* the constructor's argument
    validNetwork,   \* this.validNetwork
    suffix,         \* this.suffix
    apiKey,         \* this.apiKey
    timeout,        \* this.timeout
    ready,          \* this.ready: the deadline of the current timer promise
    now,            \* the clock, in ms
    pc,             \* per call: where this fetchSourcesForAddress call stands
    attempt,        \* per call: the loop counter of getSuccessfulResponse
    lastError,      \* per call: the local lastError
    awaited,        \* per call: the deadline of the promise it awaits
    inflight,       \* per call: the request handed to the transport
    attemptLog,     \* per call: what the transport answered, per attempt
    outcome,        \* per call: what the call returned or raised
    calls,          \* the number of calls made so far on this instance
    dispatches,     \* the times at which makeRequest was last entered (two at most)
    overlapped,     \* some call was made while another was unfinished
    record,         \* the raw record handed to processResult (classifier runs)
    classified,     \* what processResult made of it
    lastSourceJson, \* processResult's local sourceJson as the latest run left it
    classifiedAgain, \* what a second processResult made of the same record
    decoderContract, \* forContract's argument `contract`
    decoderRelevant, \* forContract's argument `relevantContracts`
    wireDecoder     \* the wire decoder forContract had made

fetcherVars == <<networkId, validNetwork, suffix, apiKey, timeout, ready>>
callVars == <<pc, attempt, lastError, awaited, inflight, attemptLog, outcome, calls>>
histVars == <<dispatches, overlapped>>
classVars == <<record, classified, lastSourceJson, classifiedAgain>>
decoderVars == <<decoderContract, decoderRelevant, wireDecoder>>
vars == <<fetcherVars, now, callVars, histVars, classVars, decoderVars>>

\* The fields of the records below and what each is a field of.  Every record
\* lists its fields in the order they have here.
Fields ==
    [kind |-> "a classification, an outcome, a reply or a settled promise",
     ok |-> "the result of JSON.parse",
     type |-> "a JavaScript value",
     name |-> "an error",
     status |-> "a response envelope",
     message |-> "an error or a response envelope",
     result |-> "a response envelope",
     error |-> "a throw",
     response |-> "a reply of the transport",
     value |-> "a JavaScript value, a return or the result of JSON.parse",
     items |-> "an array",
     entries |-> "an object",
     sources |-> "a SourceInfo",
     options |-> "a SourceInfo",
     language |-> "the options of a SourceInfo",
     version |-> "the options of a SourceInfo",
     settings |-> "the options of a SourceInfo",
     optimizer |-> "the settings",
     enabled |-> "the optimizer settings",
     runs |-> "the optimizer settings",
     evmVersion |-> "the settings",
     uri |-> "a request",
     qs |-> "a request",
     module |-> "the query of a request",
     action |-> "the query of a request",
     apikey |-> "the query of a request",
     SourceCode |-> "a raw record",
     ABI |-> "a raw record",
     ContractName |-> "a raw record",
     CompilerVersion |-> "a raw record",
     OptimizationUsed |-> "a raw record",
     Runs |-> "a raw record",
     EVMVersion |-> "a raw record",
     Library |-> "a raw record",
     contracts |-> "a wire decoder"]

(***************************************************************************)
(* Bounds of the model.                                                    *)
(***************************************************************************)
MaxCalls == 2
MaxTicks == 4
MaxNetworkId == 6

\* The calls of fetchSourcesForAddress on the instance, numbered in the order
\* in which they are made.
Calls == 1..MaxCalls

\* The contract objects forContract may be handed, and the longest list of
\* relevant contracts.
MaxContracts == 3
MaxRelevant == 3

(***************************************************************************)
(* Program constants.                                                      *)
(***************************************************************************)
IntervalWithKey == 200
IntervalWithoutKey == 334
allowedAttempts == 2

\* The clock advances in steps of half the keyless interval: enough to tell
\* gaps of 0, of less than the interval, of exactly the interval and of more.
TickStep == IntervalWithoutKey \div 2

undefined == "undefined"

(***************************************************************************)
(* common.ts (not among the sources): the table of network names and the   *)
(* timer.  The table holds the five supported networks and one network     *)
(* that is known by name but not served by this provider.                  *)
(***************************************************************************)
networksById(id) ==
    CASE id = 1 -> "mainnet"
      [] id = 3 -> "ropsten"
      [] id = 4 -> "rinkeby"
      [] id = 5 -> "goerli"
      [] id = 42 -> "kovan"
      [] id = 2 -> "morden"
      [] OTHER -> undefined

\* makeTimer(ms) at time t: a promise resolved at or after t + ms.
makeTimer(t, milliseconds) == t + milliseconds

NetworkIds == (0..MaxNetworkId) \cup {42}

(***************************************************************************)
(* The constructor.                                                        *)
(***************************************************************************)
supportedNetworks == {"mainnet", "ropsten", "kovan", "rinkeby", "goerli"}

ConstructValid(networkName) ==
    ~(networkName = undefined \/ networkName \notin supportedNetworks)

\* A constructor that hyphenates every supported name, mainnet included.
ConstructSuffixHyphenated(networkName) ==
    IF networkName = undefined \/ networkName \notin supportedNetworks
    THEN undefined
    ELSE "-" \o networkName

ConstructSuffix(networkName) ==
    IF networkName = undefined \/ networkName \notin supportedNetworks
    THEN undefined
    ELSE IF networkName = "mainnet" THEN "" ELSE "-" \o networkName

ConstructTimeout(key) == IF key # "" THEN IntervalWithKey ELSE IntervalWithoutKey

isNetworkValid == validNetwork

(***************************************************************************)
(* Strings.  A string is a TLA+ string; the operations that look inside    *)
(* one (startsWith, endsWith, parseInt) work on its spelling.              *)
(***************************************************************************)
Chars(s) ==
    CASE s = "" -> <<>>
      [] s = "v0.8.0" -> <<"v", "0", ".", "8", ".", "0">>
      [] s = "vyper:0.2.8" -> <<"v", "y", "p", "e", "r", ":", "0", ".", "2", ".", "8">>
      [] s = "vyper" -> <<"v", "y", "p", "e", "r">>
      [] s = "200" -> <<"2", "0", "0">>
      [] s = "0" -> <<"0">>
      [] s = "1" -> <<"1">>
      [] s = "2" -> <<"2">>
      [] s = "1e3" -> <<"1", "e", "3">>
      [] s = "C" -> <<"C">>
      [] s = "C.sol" -> <<"C", ".", "s", "o", "l">>
      [] s = "a" -> <<"a">>
      [] s = "b" -> <<"b">>
      [] s = "c" -> <<"c">>
      [] s = "a.sol" -> <<"a", ".", "s", "o", "l">>
      [] s = "b.sol" -> <<"b", ".", "s", "o", "l">>
      [] s = ".sol" -> <<".", "s", "o", "l">>
      [] s = "abc" -> <<"a", "b", "c">>
      [] s = "language" -> <<"l", "a", "n", "g", "u", "a", "g", "e">>
      [] s = "sources" -> <<"s", "o", "u", "r", "c", "e", "s">>
      [] s = "settings" -> <<"s", "e", "t", "t", "i", "n", "g", "s">>

startsWith(s, prefix) ==
    LET cs == Chars(s)
        ps == Chars(prefix)
    IN  Len(cs) >= Len(ps) /\ SubSeq(cs, 1, Len(ps)) = ps

endsWith(s, ending) ==
    LET cs == Chars(s)
        es == Chars(ending)
    IN  Len(cs) >= Len(es) /\ SubSeq(cs, Len(cs) - Len(es) + 1, Len(cs)) = es

NaN == "NaN"

DigitValue(ch) ==
    CASE ch = "0" -> 0 [] ch = "1" -> 1 [] ch = "2" -> 2 [] ch = "3" -> 3
      [] ch = "4" -> 4 [] ch = "5" -> 5 [] ch = "6" -> 6 [] ch = "7" -> 7
      [] ch = "8" -> 8 [] ch = "9" -> 9 [] OTHER -> -1

RECURSIVE ParseDigits(_, _, _)
\* The value of the longest run of decimal digits of cs that starts at i,
\* with acc the value read so far.
ParseDigits(cs, i, acc) ==
    IF i > Len(cs) \/ DigitValue(cs[i]) < 0
    THEN acc
    ELSE ParseDigits(cs, i + 1, acc * 10 + DigitValue(cs[i]))

\* parseInt of a string with no sign, radix prefix or leading blanks: the
\* leading decimal digits, NaN when there are none.
parseInt(s) ==
    LET cs == Chars(s)
    IN  IF Len(cs) = 0 \/ DigitValue(cs[1]) < 0 THEN NaN ELSE ParseDigits(cs, 1, 0)

\* common.ts (not among the sources): the file name of a contract name or
\* source path.
makeFilename(name) == IF endsWith(name, ".sol") THEN name ELSE name \o ".sol"

(***************************************************************************)
(* JavaScript values, as far as the classifier looks at them.  An object   *)
(* is the sequence of its <<key, value>> entries in insertion order.       *)
(***************************************************************************)
JUndefined == [type |-> "undefined"]
JNull == [type |-> "null"]
JNumber(n) == [type |-> "number", value |-> n]
JBoolean(b) == [type |-> "boolean", value |-> b]
JString(s) == [type |-> "string", value |-> s]
JArray(items) == [type |-> "array", items |-> items]
JObject(entries) == [type |-> "object", entries |-> entries]

TypeError == [name |-> "TypeError", message |-> "Cannot read property of undefined or null"]

IsNullish(v) == v.type \in {"undefined", "null"}

IndexKey(i) ==
    CASE i = 0 -> "0" [] i = 1 -> "1" [] i = 2 -> "2" [] i = 3 -> "3" [] i = 4 -> "4"
      [] i = 5 -> "5" [] i = 6 -> "6" [] i = 7 -> "7" [] i = 8 -> "8" [] i = 9 -> "9"

\* The own enumerable entries of a value that is neither undefined nor null.
OwnEntries(v) ==
    CASE v.type = "object" -> v.entries
      [] v.type = "array" -> [i \in 1..Len(v.items) |-> <<IndexKey(i - 1), v.items[i]>>]
      [] v.type = "string" ->
            [i \in 1..Len(Chars(v.value)) |-> <<IndexKey(i - 1), JString(Chars(v.value)[i])>>]
      [] OTHER -> <<>>

\* v[key] for a value that is neither undefined nor null.
GetProperty(v, key) ==
    LET es == OwnEntries(v)
        at == {i \in 1..Len(es) : es[i][1] = key}
    IN  IF at = {} THEN JUndefined ELSE es[CHOOSE i \in at : \A j \in at : j <= i][2]

\* The object with these entries; a later entry replaces an earlier one of
\* the same key (Object.assign, object spread).
FromEntries(es) ==
    LET keys == {es[i][1] : i \in 1..Len(es)}
    IN  [k \in keys |-> es[CHOOSE i \in 1..Len(es) :
                              es[i][1] = k /\ \A j \in 1..Len(es) : es[j][1] = k => j <= i][2]]

(***************************************************************************)
(* JSON.parse on the source texts of the model: the value a text parses    *)
(* to, or no value when it is not JSON (a SyntaxError).                    *)
(***************************************************************************)
PlainSource == "contract C {}"
MultiSource == "{\"a.sol\":{\"content\":\"X\"},\"b.sol\":{\"content\":\"Y\"}}"
MultiSourceNoExt == "{\"a\":{\"content\":\"X\"},\"a.sol\":{\"content\":\"Y\"}}"
FullInput ==
    "{\"language\":\"Solidity\",\"sources\":{\"a.sol\":{\"content\":\"X\"}},\"settings\":{\"libraries\":{\"a.sol\":{\"L\":\"0x01\"}},\"optimizer\":{\"enabled\":true,\"runs\":1},\"evmVersion\":\"istanbul\"}}"
FullInputNoLibraries ==
    "{\"language\":\"Solidity\",\"sources\":{\"a.sol\":{\"content\":\"X\"},\"b.sol\":{\"content\":\"Y\"}},\"settings\":{\"optimizer\":{\"enabled\":false,\"runs\":200}}}"
FullInputBare == "{\"language\":\"Solidity\"}"

SourceEntry(content) == JObject(<< <<"content", JString(content)>> >>)

JSONparse(text) ==
    CASE text = MultiSource ->
            [ok |-> TRUE, value |-> JObject(<< <<"a.sol", SourceEntry("X")>>,
                                              <<"b.sol", SourceEntry("Y")>> >>)]
      [] text = MultiSourceNoExt ->
            [ok |-> TRUE, value |-> JObject(<< <<"a", SourceEntry("X")>>,
                                              <<"a.sol", SourceEntry("Y")>> >>)]
      [] text = FullInput ->
            [ok |-> TRUE, value |-> JObject(<<
                <<"language", JString("Solidity")>>,
                <<"sources", JObject(<< <<"a.sol", SourceEntry("X")>> >>)>>,
                <<"settings", JObject(<<
                    <<"libraries", JObject(<< <<"a.sol",
                        JObject(<< <<"L", JString("0x01")>> >>)>> >>)>>,
                    <<"optimizer", JObject(<< <<"enabled", JBoolean(TRUE)>>,
                                              <<"runs", JNumber(1)>> >>)>>,
                    <<"evmVersion", JString("istanbul")>> >>)>> >>)]
      [] text = FullInputNoLibraries ->
            [ok |-> TRUE, value |-> JObject(<<
                <<"language", JString("Solidity")>>,
                <<"sources", JObject(<< <<"a.sol", SourceEntry("X")>>,
                                        <<"b.sol", SourceEntry("Y")>> >>)>>,
                <<"settings", JObject(<<
                    <<"optimizer", JObject(<< <<"enabled", JBoolean(FALSE)>>,
                                              <<"runs", JNumber(200)>> >>)>> >>)>> >>)]
      [] text = FullInputBare ->
            [ok |-> TRUE, value |-> JObject(<< <<"language", JString("Solidity")>> >>)]
      [] text = "null" -> [ok |-> TRUE, value |-> JNull]
      [] text = "1" -> [ok |-> TRUE, value |-> JNumber(1)]
      [] text = "\"abc\"" -> [ok |-> TRUE, value |-> JString("abc")]
      [] text = "[]" -> [ok |-> TRUE, value |-> JArray(<<>>)]
      [] text = "[null]" -> [ok |-> TRUE, value |-> JArray(<<JNull>>)]
      [] OTHER -> [ok |-> FALSE]

SourceTexts ==
    {"", PlainSource, MultiSource, MultiSourceNoExt, FullInput, FullInputNoLibraries,
     FullInputBare, "null", "1", "\"abc\"", "[]", "[null]"}

(***************************************************************************)
(* The raw record (EtherscanResult) and the classifier.  A classification  *)
(* is null, a SourceInfo, or the exception the classifier throws.          *)
(***************************************************************************)
NotVerified == "Contract source code not verified"

RawRecords ==
    [SourceCode : SourceTexts,
     ABI : {NotVerified, "[]"},
     ContractName : {"C", "a.sol"},
     CompilerVersion : {"v0.8.0", "vyper:0.2.8", ""},
     OptimizationUsed : {"0", "1"},
     Runs : {"200", "0", "1e3", ""},
     EVMVersion : {"Default", "istanbul"},
     Library : {"", "L:0x01"}]

Null == [kind |-> "null"]
SourceInfo(sources, language, version, settings) ==
    [kind |-> "SourceInfo", sources |-> sources,
     options |-> [language |-> language, version |-> version, settings |-> settings]]
Thrown(error) == [kind |-> "throw", error |-> error]

EmptyObject == <<>>

\* An extractSettings that copies EVMVersion whatever it is.
extractSettingsWithDefault(result) ==
    [optimizer |-> [enabled |-> result.OptimizationUsed = "1", runs |-> parseInt(result.Runs)],
     evmVersion |-> result.EVMVersion]

extractSettings(result) ==
    LET evmVersion == IF result.EVMVersion = "Default" THEN undefined ELSE result.EVMVersion
        optimizer == [enabled |-> result.OptimizationUsed = "1", runs |-> parseInt(result.Runs)]
    IN  IF evmVersion # undefined
        THEN [optimizer |-> optimizer, evmVersion |-> evmVersion]
        ELSE [optimizer |-> optimizer]

\* A removeLibraries that copies and deletes nothing.
removeLibrariesKept(settings) ==
    FromEntries(IF IsNullish(settings) THEN <<>> ELSE OwnEntries(settings))

\* { ...settings } of any value, then delete copy.libraries.
removeLibraries(settings) ==
    LET copySettings == FromEntries(IF IsNullish(settings) THEN <<>> ELSE OwnEntries(settings))
    IN  [k \in DOMAIN copySettings \ {"libraries"} |-> copySettings[k]]

\* Object.entries(sources) throws on undefined and null, and so does taking
\* { content } out of an entry that is undefined or null.
processSourcesThrows(sources) ==
    \/ IsNullish(sources)
    \/ \E i \in 1..Len(OwnEntries(sources)) : IsNullish(OwnEntries(sources)[i][2])

processSources(sources) ==
    LET es == OwnEntries(sources)
    IN  FromEntries([i \in 1..Len(es) |->
                        <<makeFilename(es[i][1]), GetProperty(es[i][2], "content")>>])

isFullJson(sourceJson) == GetProperty(sourceJson, "language") = JString("Solidity")

processSingleResult(result) ==
    LET filename == makeFilename(result.ContractName)
    IN  SourceInfo((filename :> JString(result.SourceCode)), "Solidity",
                   result.CompilerVersion, extractSettings(result))

processMultiResult(result, sources) ==
    IF processSourcesThrows(sources)
    THEN Thrown(TypeError)
    ELSE SourceInfo(processSources(sources), "Solidity",
                    result.CompilerVersion, extractSettings(result))

processJsonResult(result, jsonInput) ==
    IF processSourcesThrows(GetProperty(jsonInput, "sources"))
    THEN Thrown(TypeError)
    ELSE SourceInfo(processSources(GetProperty(jsonInput, "sources")), "Solidity",
                    result.CompilerVersion,
                    removeLibraries(GetProperty(jsonInput, "settings")))

IsUnverified(result) == result.SourceCode = "" /\ result.ABI = NotVerified

IsVyper(result) == startsWith(result.CompilerVersion, "vyper")

VyperInfo == SourceInfo(EmptyObject, "Vyper", "", EmptyObject)

\* A processResult that looks at the compiler version first.
processResultVyperFirst(result) ==
    IF IsVyper(result)
    THEN VyperInfo
    ELSE IF IsUnverified(result)
    THEN Null
    ELSE LET parsed == JSONparse(result.SourceCode)
         IN  IF ~parsed.ok
             THEN processSingleResult(result)
             ELSE IF IsNullish(parsed.value)
             THEN Thrown(TypeError)
             ELSE IF isFullJson(parsed.value)
             THEN processJsonResult(result, parsed.value)
             ELSE processMultiResult(result, parsed.value)

\* A removeLibraries that deletes the key from its argument.
removeLibrariesArgumentDeleted(settings) ==
    IF settings.type = "object"
    THEN JObject(SelectSeq(settings.entries, LAMBDA e : e[1] # "libraries"))
    ELSE settings

\* The argument of removeLibraries when it has returned: the spread makes a
\* new object and the delete acts on that one.
removeLibrariesArgument(settings) == settings

\* The object v with its property `key` set to `new`.
SetProperty(v, key, new) ==
    JObject([i \in 1..Len(v.entries) |->
                IF v.entries[i][1] = key THEN <<key, new>> ELSE v.entries[i]])

\* The local sourceJson when processResult is over: unset when the parse was
\* not reached or threw, else the parsed value as the callees left it.
processResultSourceJson(result) ==
    IF IsUnverified(result) \/ IsVyper(result)
    THEN JUndefined
    ELSE LET parsed == JSONparse(result.SourceCode)
         IN  IF ~parsed.ok
             THEN JUndefined
             ELSE IF IsNullish(parsed.value)
             THEN parsed.value
             ELSE IF /\ isFullJson(parsed.value)
                     /\ ~processSourcesThrows(GetProperty(parsed.value, "sources"))
                     /\ GetProperty(parsed.value, "settings") # JUndefined
             THEN SetProperty(parsed.value, "settings",
                              removeLibrariesArgument(GetProperty(parsed.value, "settings")))
             ELSE parsed.value

processResult(result) ==
    IF IsUnverified(result)
    THEN Null
    ELSE IF IsVyper(result)
    THEN VyperInfo
    ELSE LET parsed == JSONparse(result.SourceCode)
         IN  IF ~parsed.ok
             THEN processSingleResult(result)
             ELSE IF IsNullish(parsed.value)
             THEN Thrown(TypeError)
             ELSE IF isFullJson(parsed.value)
             THEN processJsonResult(result, parsed.value)
             ELSE processMultiResult(result, parsed.value)

(***************************************************************************)
(* The transport and makeRequest.  The transport either throws or answers  *)
(* with an envelope; makeRequest turns a failure envelope into a throw.    *)
(***************************************************************************)
TransportMessages == {"ECONNRESET"}
ProviderMessages == {"Max rate limit reached"}

RequestError(message) == [name |-> "RequestError", message |-> message]
Error(message) == [name |-> "Error", message |-> message]
NoError == [name |-> "undefined", message |-> ""]

EtherscanFailure(result) == [status |-> "0", message |-> "NOTOK", result |-> result]
EtherscanSuccess(result) == [status |-> "1", message |-> "OK", result |-> <<result>>]

BaseRecord ==
    [SourceCode |-> PlainSource, ABI |-> "[]", ContractName |-> "C",
     CompilerVersion |-> "v0.8.0", OptimizationUsed |-> "1", Runs |-> "200",
     EVMVersion |-> "Default", Library |-> ""]

\* The records the provider answers with in the fetch runs.
ResponseRecords ==
    {BaseRecord,
     [BaseRecord EXCEPT !.SourceCode = "", !.ABI = NotVerified],
     [BaseRecord EXCEPT !.SourceCode = "null"]}

Returned(value) == [kind |-> "return", value |-> value]

RequestUri(sfx) == "https://api" \o sfx \o ".etherscan.io/api"

Request(sfx, key) ==
    [uri |-> RequestUri(sfx),
     qs |-> [module |-> "contract", action |-> "getsourcecode", apikey |-> key]]

NoRequest == [uri |-> "", qs |-> [module |-> "", action |-> "", apikey |-> ""]]

\* A makeRequest that does not look at the status.
makeRequestUnchecked(response) == Returned(response)

\* makeRequest once the transport has answered with an envelope.
makeRequest(response) ==
    IF response.status = "0"
    THEN Thrown(Error(response.result))
    ELSE Returned(response)

\* A transport reply settles the promise makeRequest returned.
Settle(reply) ==
    IF reply.kind = "throw" THEN Thrown(reply.error) ELSE makeRequest(reply.response)

(***************************************************************************)
(* The decoder interface: forContract and forProject.  A contract object   *)
(* is a reference: Array.prototype.includes compares objects by identity,  *)
(* so a contract object is represented by its identity.                    *)
(***************************************************************************)
ContractObjects == 1..MaxContracts

RECURSIVE ListsUpTo(_, _)
\* The lists of at most n members of S.
ListsUpTo(S, n) ==
    IF n = 0
    THEN {<<>>}
    ELSE LET shorter == ListsUpTo(S, n - 1)
         IN  shorter \cup {Append(l, x) : l \in {k \in shorter : Len(k) = n - 1}, x \in S}

NoDecoder == [kind |-> "none"]

includes(list, searchElement) == \E i \in 1..Len(list) : list[i] = searchElement

forProject(contracts) == [kind |-> "WireDecoder", contracts |-> contracts]

\* A forContract that puts the contract in front whatever the list holds.
forContractPrepended(contract, relevantContracts) ==
    forProject(<<contract>> \o relevantContracts)

\* The wire decoder forContract makes.
forContract(contract, relevantContracts) ==
    LET contracts == IF includes(relevantContracts, contract)
                     THEN relevantContracts
                     ELSE <<contract>> \o relevantContracts
    IN  forProject(contracts)

(***************************************************************************)
(* The state after construction.                                           *)
(***************************************************************************)
NoOutcome == [kind |-> "none"]

Constructed(id) ==
    /\ networkId = id
    /\ validNetwork = ConstructValid(networksById(id))
    /\ suffix = ConstructSuffix(networksById(id))
    /\ apiKey = ""
    /\ timeout = ConstructTimeout("")
    /\ ready = makeTimer(0, 0)
    /\ now = 0
    /\ pc = [c \in Calls |-> "idle"]
    /\ attempt = [c \in Calls |-> 0]
    /\ lastError = [c \in Calls |-> NoError]
    /\ awaited = [c \in Calls |-> 0]
    /\ inflight = [c \in Calls |-> NoRequest]
    /\ attemptLog = [c \in Calls |-> <<>>]
    /\ outcome = [c \in Calls |-> NoOutcome]
    /\ calls = 0
    /\ dispatches = <<>>
    /\ overlapped = FALSE

\* No processResult has run.
Unclassified ==
    /\ classified = NoOutcome
    /\ lastSourceJson = JUndefined
    /\ classifiedAgain = NoOutcome

\* No forContract has run.
NoDecoding ==
    /\ decoderContract = 1
    /\ decoderRelevant = <<>>
    /\ wireDecoder = NoDecoder

\* A fetcher for mainnet (network id 1).
Init ==
    /\ Constructed(1)
    /\ record = BaseRecord
    /\ Unclassified
    /\ NoDecoding

(***************************************************************************)
(* fetchSourcesForAddress, one action per stretch between awaits.          *)
(***************************************************************************)
Busy(c) == pc[c] \in {"awaitReady", "awaitResponse"}

\* A fetchSourcesForAddress that refuses to run on an unsupported network.
CallChecked(c) ==
    /\ c = calls + 1
    /\ calls' = calls + 1
    /\ IF validNetwork
       THEN /\ awaited' = [awaited EXCEPT ![c] = ready]
            /\ pc' = [pc EXCEPT ![c] = "awaitReady"]
            /\ UNCHANGED outcome
       ELSE /\ outcome' = [outcome EXCEPT ![c] =
                              [kind |-> "raised",
                               error |-> [name |-> "NetworkUnsupported", message |-> ""]]]
            /\ pc' = [pc EXCEPT ![c] = "raised"]
            /\ UNCHANGED awaited
    /\ overlapped' = (overlapped \/ \E d \in Calls \ {c} : Busy(d))
    /\ UNCHANGED <<fetcherVars, now, attempt, lastError, inflight, attemptLog>>
    /\ UNCHANGED <<dispatches, classVars, decoderVars>>

\* A fetchSourcesForAddress that starts a fresh timer of its own.
CallRearming(c) ==
    /\ c = calls + 1
    /\ calls' = calls + 1
    /\ ready' = makeTimer(now, 0)
    /\ awaited' = [awaited EXCEPT ![c] = ready']
    /\ pc' = [pc EXCEPT ![c] = "awaitReady"]
    /\ overlapped' = (overlapped \/ \E d \in Calls \ {c} : Busy(d))
    /\ UNCHANGED <<networkId, validNetwork, suffix, apiKey, timeout, now>>
    /\ UNCHANGED <<attempt, lastError, inflight, attemptLog, outcome>>
    /\ UNCHANGED <<dispatches, classVars, decoderVars>>

\* The call runs up to the first `await this.ready`.
Call(c) ==
    /\ c = calls + 1
    /\ calls' = calls + 1
    /\ awaited' = [awaited EXCEPT ![c] = ready]
    /\ pc' = [pc EXCEPT ![c] = "awaitReady"]
    /\ overlapped' = (overlapped \/ \E d \in Calls \ {c} : Busy(d))
    /\ UNCHANGED <<fetcherVars, now, attempt, lastError, inflight, attemptLog, outcome>>
    /\ UNCHANGED <<dispatches, classVars, decoderVars>>

\* The two most recent entries of a log.
LastTwo(log) == IF Len(log) <= 2 THEN log ELSE SubSeq(log, Len(log) - 1, Len(log))

\* A dispatch that leaves the old timer in place.
NextReadyKept(t) == ready

\* A timer that runs from the deadline of the one before it.
NextReadyFromPrevious(t) == makeTimer(ready, timeout)

\* The timer to start when a request has been dispatched at time t.
NextReady(t) == makeTimer(t, timeout)

\* The awaited timer has fired: makeRequest is entered, the timer is
\* replaced, and the call waits for the response.
Dispatch(c) ==
    /\ pc[c] = "awaitReady"
    /\ now >= awaited[c]
    /\ inflight' = [inflight EXCEPT ![c] = Request(suffix, apiKey)]
    /\ dispatches' = LastTwo(Append(dispatches, now))
    /\ ready' = NextReady(now)
    /\ pc' = [pc EXCEPT ![c] = "awaitResponse"]
    /\ UNCHANGED <<networkId, validNetwork, suffix, apiKey, timeout, now>>
    /\ UNCHANGED <<attempt, lastError, awaited, attemptLog, outcome, calls>>
    /\ UNCHANGED <<overlapped, classVars, decoderVars>>

Raised(error) == [kind |-> "raised", error |-> error]

\* What fetchSourcesForAddress makes of the response getSuccessfulResponse
\* gave it.  The result of a failure envelope is a string: its [0] is a
\* character, which has no CompilerVersion to call startsWith on.
FetchOutcome(response) ==
    IF response.status = "1"
    THEN LET c == processResult(response.result[1])
         IN  IF c.kind = "throw" THEN Raised(c.error)
             ELSE [kind |-> "returned", value |-> c]
    ELSE Raised(TypeError)

\* A loop bound that is off by one.
RetriesOnceMore(failures) == failures <= allowedAttempts

\* Whether the loop goes round again after `failures` failed attempts.
Retries(failures) == failures < allowedAttempts

\* A catch that keeps the first error it saw.
CaughtErrorFirst(previous, error) == IF previous = NoError THEN error ELSE previous

\* The error kept after a failed attempt.
CaughtError(previous, error) == error

\* The transport has answered: the rest of the attempt, up to the next
\* await or to the end of the call.
Complete(c, reply) ==
    /\ pc[c] = "awaitResponse"
    /\ attemptLog' = [attemptLog EXCEPT ![c] = Append(@, reply)]
    /\ inflight' = [inflight EXCEPT ![c] = NoRequest]
    /\ LET settled == Settle(reply)
       IN  IF settled.kind = "return"
           THEN /\ outcome' = [outcome EXCEPT ![c] = FetchOutcome(settled.value)]
                /\ pc' = [pc EXCEPT ![c] = outcome'[c].kind]
                /\ UNCHANGED <<attempt, lastError, awaited>>
           ELSE /\ lastError' = [lastError EXCEPT ![c] = CaughtError(@, settled.error)]
                /\ attempt' = [attempt EXCEPT ![c] = @ + 1]
                /\ IF Retries(attempt'[c])
                   THEN /\ awaited' = [awaited EXCEPT ![c] = ready]
                        /\ pc' = [pc EXCEPT ![c] = "awaitReady"]
                        /\ UNCHANGED outcome
                   ELSE /\ outcome' = [outcome EXCEPT ![c] = Raised(lastError'[c])]
                        /\ pc' = [pc EXCEPT ![c] = "raised"]
                        /\ UNCHANGED awaited
    /\ UNCHANGED <<fetcherVars, now, calls, histVars, classVars, decoderVars>>

TransportFailure(c) ==
    \E m \in TransportMessages : Complete(c, [kind |-> "throw", error |-> RequestError(m)])

ProviderFailure(c) ==
    \E m \in ProviderMessages :
        Complete(c, [kind |-> "response", response |-> EtherscanFailure(m)])

ProviderSuccess(c) ==
    \E r \in ResponseRecords :
        Complete(c, [kind |-> "response", response |-> EtherscanSuccess(r)])

\* Time passes.
Tick ==
    /\ now + TickStep <= MaxTicks * TickStep
    /\ now' = now + TickStep
    /\ UNCHANGED <<fetcherVars, callVars, histVars, classVars, decoderVars>>

Next ==
    \/ \E c \in Calls : Call(c)
    \/ \E c \in Calls : Dispatch(c)
    \/ \E c \in Calls : TransportFailure(c)
    \/ \E c \in Calls : ProviderFailure(c)
    \/ \E c \in Calls : ProviderSuccess(c)
    \/ Tick

Spec == Init /\ [][Next]_vars

(***************************************************************************)
(* Fetches under fair scheduling.  Time passes when a timer that some call *)
(* awaits fires, and then up to its deadline, however late that is: no     *)
(* call is left waiting because the clock has run out.  A call whose timer *)
(* has fired is resumed by the event loop, and the transport settles every *)
(* request it was handed.                                                  *)
(***************************************************************************)
TimerFires(c) ==
    /\ pc[c] = "awaitReady"
    /\ awaited[c] > now
    /\ now' = awaited[c]
    /\ UNCHANGED <<fetcherVars, callVars, histVars, classVars, decoderVars>>

TransportSettles(c) == TransportFailure(c) \/ ProviderFailure(c) \/ ProviderSuccess(c)

NextFair ==
    \/ \E c \in Calls : Call(c)
    \/ \E c \in Calls : TimerFires(c)
    \/ \E c \in Calls : Dispatch(c)
    \/ \E c \in Calls : TransportFailure(c)
    \/ \E c \in Calls : ProviderFailure(c)
    \/ \E c \in Calls : ProviderSuccess(c)

Fairness ==
    \A c \in Calls :
        /\ WF_vars(TimerFires(c))
        /\ WF_vars(Dispatch(c))
        /\ WF_vars(TransportSettles(c))

SpecFair == Init /\ [][NextFair]_vars /\ Fairness

(***************************************************************************)
(* One call on a fetcher constructed for any network id.                   *)
(***************************************************************************)
InitNetworks ==
    /\ \E id \in NetworkIds : Constructed(id)
    /\ record = BaseRecord
    /\ Unclassified
    /\ NoDecoding

NextNetworks ==
    \/ Call(1)
    \/ Dispatch(1)
    \/ TransportFailure(1)
    \/ ProviderFailure(1)
    \/ ProviderSuccess(1)
    \/ Tick

SpecNetworks == InitNetworks /\ [][NextNetworks]_vars

(***************************************************************************)
(* Classifier runs: processResult applied to every raw record.             *)
(***************************************************************************)
InitClassify ==
    /\ Constructed(1)
    /\ record \in RawRecords
    /\ Unclassified
    /\ NoDecoding

Classify ==
    /\ classified = NoOutcome
    /\ classified' = processResult(record)
    /\ lastSourceJson' = processResultSourceJson(record)
    /\ UNCHANGED <<fetcherVars, now, callVars, histVars, record, classifiedAgain, decoderVars>>

\* processResult once more, on the same record.
ClassifyAgain ==
    /\ classified # NoOutcome
    /\ classifiedAgain = NoOutcome
    /\ classifiedAgain' = processResult(record)
    /\ lastSourceJson' = processResultSourceJson(record)
    /\ UNCHANGED <<fetcherVars, now, callVars, histVars, record, classified, decoderVars>>

NextClassify == Classify \/ ClassifyAgain

SpecClassify == InitClassify /\ [][NextClassify]_vars

(***************************************************************************)
(* Decoder runs: forContract applied to every contract and every list of   *)
(* relevant contracts.                                                     *)
(***************************************************************************)
InitContracts ==
    /\ Constructed(1)
    /\ record = BaseRecord
    /\ Unclassified
    /\ decoderContract \in ContractObjects
    /\ decoderRelevant \in ListsUpTo(ContractObjects, MaxRelevant)
    /\ wireDecoder = NoDecoder

ForContract ==
    /\ wireDecoder = NoDecoder
    /\ wireDecoder' = forContract(decoderContract, decoderRelevant)
    /\ UNCHANGED <<fetcherVars, now, callVars, histVars, classVars>>
    /\ UNCHANGED <<decoderContract, decoderRelevant>>

NextContracts == ForContract

SpecContracts == InitContracts /\ [][NextContracts]_vars

(***************************************************************************)
(* What the claims speak about.                                            *)
(***************************************************************************)
Done(c) == pc[c] \in {"returned", "raised"}

\* The dispatches call c has made.
Attempts(c) == Len(attemptLog[c]) + (IF pc[c] = "awaitResponse" THEN 1 ELSE 0)

Succeeded(reply) == reply.kind = "response" /\ reply.response.status = "1"
IsFailureEnvelope(reply) == reply.kind = "response" /\ reply.response.status = "0"
Failed(reply) == reply.kind = "throw" \/ IsFailureEnvelope(reply)

\* The error a failed attempt ends with.
FailureOf(reply) ==
    IF reply.kind = "throw"
    THEN reply.error
    ELSE [name |-> "Error", message |-> reply.response.result]

Spaced == Len(dispatches) = 2 => dispatches[2] - dispatches[1] >= timeout

(***************************************************************************)
(* C1: whatever the number of concurrent calls and their interleaving, two *)
(* dispatches of one instance start at least `timeout` ms apart.  The code *)
(* does not keep this: two calls that await the same timer both dispatch   *)
(* when it fires.                                                          *)
(***************************************************************************)
C1_DispatchesSpaced == Spaced

(***************************************************************************)
(* C2: when every call is made only after the one before it has returned   *)
(* or raised, successive dispatches, retries included, are at least        *)
(* `timeout` ms apart.                                                     *)
(***************************************************************************)
C2_SequentialSpaced == ~overlapped => Spaced

\* Two calls one after the other, the first with a retry: three dispatches.
C2_Witness ==
    /\ ~overlapped
    /\ calls = 2
    /\ Len(attemptLog[1]) = 2
    /\ Attempts(2) >= 1
    /\ Len(dispatches) = 2

(***************************************************************************)
(* C3: a call makes at most two attempts, and a successful attempt is the  *)
(* last one: a call whose first attempt succeeds has made one dispatch and *)
(* is over.                                                                *)
(***************************************************************************)
C3_AtMostTwoAttempts ==
    \A c \in Calls :
        /\ Attempts(c) <= 2
        /\ \A i \in 1..Len(attemptLog[c]) :
              Succeeded(attemptLog[c][i]) => Attempts(c) = i /\ Done(c)

C3_Witness ==
    \E c \in Calls :
        /\ Len(attemptLog[c]) = 1
        /\ Succeeded(attemptLog[c][1])
        /\ pc[c] = "returned"
        /\ now > makeTimer(0, timeout)

(***************************************************************************)
(* C4: when both attempts of a call fail, the call raises the error of the *)
(* second attempt, unchanged.                                              *)
(***************************************************************************)
C4_RaisesSecondError ==
    \A c \in Calls :
        (Len(attemptLog[c]) = 2 /\ Failed(attemptLog[c][1]) /\ Failed(attemptLog[c][2]))
            => /\ pc[c] = "raised"
               /\ outcome[c] = [kind |-> "raised", error |-> FailureOf(attemptLog[c][2])]

\* Both attempts failed, with different errors.
C4_Witness ==
    \E c \in Calls :
        /\ Len(attemptLog[c]) = 2
        /\ Failed(attemptLog[c][1]) /\ Failed(attemptLog[c][2])
        /\ FailureOf(attemptLog[c][1]) # FailureOf(attemptLog[c][2])
        /\ pc[c] = "raised"

(***************************************************************************)
(* C5: when the first attempt of a call fails and the second succeeds, the *)
(* call returns the classification of the second response, raises nothing, *)
(* and has made two dispatches.  The code raises when processResult throws *)
(* on the record of the second response.                                   *)
(***************************************************************************)
C5_RetryThenReturn ==
    \A c \in Calls :
        (Len(attemptLog[c]) = 2 /\ Failed(attemptLog[c][1]) /\ Succeeded(attemptLog[c][2]))
            => /\ pc[c] = "returned"
               /\ outcome[c].kind = "returned"
               /\ outcome[c].value = processResult(attemptLog[c][2].response.result[1])
               /\ Attempts(c) = 2

(***************************************************************************)
(* C6: a failure envelope (status "0") counts as a failed attempt, like a  *)
(* thrown transport failure: the error is kept, the next attempt is taken  *)
(* if one is left and the error is raised if none is; no call returns from *)
(* a failure envelope, whose result never reaches the classifier.          *)
(***************************************************************************)
C6_EnvelopeIsFailure ==
    \A c \in Calls :
        /\ \A i \in 1..Len(attemptLog[c]) :
              (IsFailureEnvelope(attemptLog[c][i]) /\ i = Len(attemptLog[c]))
                  => /\ lastError[c] = [name |-> "Error",
                                        message |-> attemptLog[c][i].response.result]
                     /\ IF i < 2
                        THEN pc[c] \in {"awaitReady", "awaitResponse"}
                        ELSE pc[c] = "raised" /\ outcome[c].error = lastError[c]
        /\ pc[c] = "returned" =>
              /\ Succeeded(attemptLog[c][Len(attemptLog[c])])
              /\ outcome[c].value =
                    processResult(attemptLog[c][Len(attemptLog[c])].response.result[1])

\* A failure envelope on the first attempt, then a successful second one.
C6_Witness ==
    \E c \in Calls :
        /\ Len(attemptLog[c]) = 2
        /\ IsFailureEnvelope(attemptLog[c][1])
        /\ pc[c] = "returned"

(***************************************************************************)
(* C7: processResult takes its cases in order.  A record with an empty     *)
(* SourceCode and the not-verified ABI gives null even when its compiler   *)
(* version starts with "vyper"; any other record whose compiler version    *)
(* starts with "vyper" gives the fixed Vyper result, whatever its          *)
(* SourceCode.                                                             *)
(***************************************************************************)
VyperVersions == {"vyper:0.2.8"}

C7_CaseOrder ==
    classified # NoOutcome =>
        /\ (record.SourceCode = "" /\ record.ABI = "Contract source code not verified")
              => classified = [kind |-> "null"]
        /\ (/\ ~(record.SourceCode = "" /\ record.ABI = "Contract source code not verified")
            /\ record.CompilerVersion \in VyperVersions)
              => classified =
                    [kind |-> "SourceInfo", sources |-> <<>>,
                     options |-> [language |-> "Vyper", version |-> "", settings |-> <<>>]]

\* An unverified record with a Vyper compiler version has been classified.
C7_Witness ==
    /\ classified = [kind |-> "null"]
    /\ record.CompilerVersion \in VyperVersions

(***************************************************************************)
(* C8: the settings of a result that is not null never have a `libraries`  *)
(* key, whichever case made it, also when the record's Library is not      *)
(* empty or the parsed compiler input has settings.libraries.              *)
(***************************************************************************)
C8_NoLibraries ==
    classified.kind = "SourceInfo" => "libraries" \notin DOMAIN classified.options.settings

\* A full compiler input with settings.libraries, and a Library field.
C8_Witness ==
    /\ classified.kind = "SourceInfo"
    /\ record.SourceCode = FullInput
    /\ record.Library # ""
    /\ "optimizer" \in DOMAIN classified.options.settings

(***************************************************************************)
(* C9: in the single-file and multi-source cases the settings come from    *)
(* the flat fields: optimizer.enabled is OptimizationUsed = "1",           *)
(* optimizer.runs is the integer parse of Runs, and evmVersion is there,   *)
(* equal to EVMVersion, exactly when EVMVersion is not "Default".          *)
(***************************************************************************)
FullInputTexts == {FullInput, FullInputNoLibraries, FullInputBare}

RunsValue(runs) ==
    CASE runs = "200" -> 200
      [] runs = "0" -> 0
      [] runs = "1e3" -> 1
      [] runs = "" -> "NaN"

C9_FlatSettings ==
    (/\ classified.kind = "SourceInfo"
     /\ classified.options.language = "Solidity"
     /\ record.SourceCode \notin FullInputTexts)
        => LET settings == classified.options.settings
           IN  /\ settings.optimizer.enabled = (record.OptimizationUsed = "1")
               /\ settings.optimizer.runs = RunsValue(record.Runs)
               /\ DOMAIN settings = IF record.EVMVersion = "Default"
                                    THEN {"optimizer"}
                                    ELSE {"optimizer", "evmVersion"}
               /\ record.EVMVersion # "Default" => settings.evmVersion = record.EVMVersion

\* A multi-source record with the "Default" EVM version has been classified.
C9_Witness ==
    /\ classified.kind = "SourceInfo"
    /\ record.SourceCode = MultiSource
    /\ record.EVMVersion = "Default"
    /\ record.OptimizationUsed = "1"
    /\ record.Runs = "1e3"

(***************************************************************************)
(* C10: isNetworkValid() is true exactly when the network id maps to one   *)
(* of mainnet, ropsten, kovan, rinkeby, goerli; the suffix of a valid      *)
(* network is "" for mainnet and "-<name>" otherwise, and the suffix of an *)
(* invalid one is undefined.                                               *)
(***************************************************************************)
C10_NetworkResolution ==
    LET name == networksById(networkId)
        supported == name \in {"mainnet", "ropsten", "kovan", "rinkeby", "goerli"}
    IN  /\ isNetworkValid = supported
        /\ suffix = CASE name = "mainnet" -> ""
                      [] name = "ropsten" -> "-ropsten"
                      [] name = "kovan" -> "-kovan"
                      [] name = "rinkeby" -> "-rinkeby"
                      [] name = "goerli" -> "-goerli"
                      [] OTHER -> undefined

\* A call on a fetcher made for a network that is known but not supported.
C10_Witness ==
    /\ networksById(networkId) \notin {undefined, "mainnet", "ropsten", "kovan", "rinkeby", "goerli"}
    /\ ~isNetworkValid
    /\ suffix = undefined
    /\ Done(1)

(***************************************************************************)
(* C11: the file names of a result are unique.  In the multi-source and    *)
(* full-JSON cases no two paths of the input sources object get the same   *)
(* key, so the sources of the result have as many entries as the input     *)
(* sources object has.  processSources merges the entries with             *)
(* Object.assign, where a later entry of the same key replaces the earlier *)
(* one, and makeFilename gives "a" and "a.sol" the same key.               *)
(***************************************************************************)
\* The sources object processSources is given for this record.
InputSources(result) ==
    LET sourceJson == JSONparse(result.SourceCode).value
    IN  IF isFullJson(sourceJson) THEN GetProperty(sourceJson, "sources") ELSE sourceJson

C11_UniqueFilenames ==
    (/\ classified.kind = "SourceInfo"
     /\ classified.options.language = "Solidity"
     /\ JSONparse(record.SourceCode).ok)
        => Cardinality(DOMAIN classified.sources) = Len(OwnEntries(InputSources(record)))

(***************************************************************************)
(* C12: fetchSourcesForAddress does not look at the validity of the        *)
(* network.  On a fetcher whose isNetworkValid() is false a call raises no *)
(* NetworkUnsupported error: it waits at the gate, can dispatch when the   *)
(* timer has fired, sends its request to the address built with the        *)
(* undefined suffix, and ends only with what an attempt gave it.           *)
(***************************************************************************)
C12_NoValidityCheck ==
    ~isNetworkValid =>
        /\ outcome[1].kind = "raised" => outcome[1].error.name # "NetworkUnsupported"
        /\ Done(1) => Len(attemptLog[1]) >= 1
        /\ (pc[1] = "awaitReady" /\ now >= awaited[1]) => ENABLED Dispatch(1)
        /\ pc[1] = "awaitResponse" =>
              inflight[1].uri = "https://apiundefined.etherscan.io/api"

\* A request is in flight on a fetcher made for an unsupported network.
C12_Witness ==
    /\ ~isNetworkValid
    /\ pc[1] = "awaitResponse"
    /\ inflight[1].uri = "https://apiundefined.etherscan.io/api"
    /\ dispatches = <<0>>

C14_ContractList ==
    wireDecoder.kind = "WireDecoder" =>
        LET list == wireDecoder.contracts
            held == \E i \in 1..Len(decoderRelevant) : decoderRelevant[i] = decoderContract
        IN  /\ \E i \in 1..Len(list) : list[i] = decoderContract
            /\ held => list = decoderRelevant
            /\ ~held => /\ Len(list) = Len(decoderRelevant) + 1
                        /\ list[1] = decoderContract
                        /\ \A i \in 1..Len(decoderRelevant) : list[i + 1] = decoderRelevant[i]

\* The contract was among the relevant ones, not in front, and is there once.
C14_Witness ==
    /\ wireDecoder.kind = "WireDecoder"
    /\ Len(decoderRelevant) = 3
    /\ decoderRelevant[1] # decoderContract
    /\ decoderRelevant[2] = decoderContract
    /\ Len(wireDecoder.contracts) = 3

(***************************************************************************)
(* C15: reset before completion.  Dispatching the request and replacing    *)
(* the timer are one step, taken before the response is awaited: whenever  *)
(* a request is in flight the timer is the one started at the latest       *)
(* dispatch, `timeout` ms long.  So while one call's request is in flight, *)
(* another call waiting at the gate can dispatch once `timeout` ms have    *)
(* passed since the latest dispatch, however long the requests in flight   *)
(* take.                                                                   *)
(***************************************************************************)
C15_ResetBeforeCompletion ==
    /\ Len(dispatches) >= 1 => ready = dispatches[Len(dispatches)] + timeout
    /\ \A c \in Calls :
          pc[c] = "awaitResponse" =>
              /\ Len(dispatches) >= 1
              /\ inflight[c].uri = "https://api.etherscan.io/api"
    /\ \A c \in Calls :
          (/\ pc[c] = "awaitReady"
           /\ \E d \in Calls \ {c} : pc[d] = "awaitResponse"
           /\ now >= dispatches[Len(dispatches)] + timeout)
              => ENABLED Dispatch(c)

\* The second call was dispatched one interval after the first, whose
\* request is still in flight.
C15_Witness ==
    /\ pc[1] = "awaitResponse"
    /\ pc[2] = "awaitResponse"
    /\ attemptLog[1] = <<>>
    /\ dispatches = <<0, IntervalWithoutKey>>
    /\ now = IntervalWithoutKey

(***************************************************************************)
(* C16: after the two first checks processResult splits three ways on the  *)
(* SourceCode text.  Text that is not JSON gives one source, keyed by the  *)
(* file name of ContractName, whose value is the text, with the settings   *)
(* of the flat fields.  Text that parses to an object whose language is    *)
(* "Solidity" gives the sources of its `sources` map (each entry's         *)
(* content) and its `settings` without the libraries, whatever the flat    *)
(* fields.  Any other text gives the top-level keys as file paths, with    *)
(* the settings of the flat fields.  In all three the language is          *)
(* "Solidity" and the version is CompilerVersion.  The code throws instead *)
(* when the text parses to null, to a full input without sources, or to a  *)
(* value with a null entry.                                                *)
(***************************************************************************)
\* The settings made of the flat fields of a record.
FlatSettings(r) ==
    IF r.EVMVersion = "Default"
    THEN [optimizer |-> [enabled |-> r.OptimizationUsed = "1", runs |-> RunsValue(r.Runs)]]
    ELSE [optimizer |-> [enabled |-> r.OptimizationUsed = "1", runs |-> RunsValue(r.Runs)],
          evmVersion |-> r.EVMVersion]

\* The file name of each entry's key, with the entry's content.
ContentsByFilename(entries) ==
    [f \in {makeFilename(entries[i][1]) : i \in 1..Len(entries)} |->
        LET i == CHOOSE j \in 1..Len(entries) :
                    /\ makeFilename(entries[j][1]) = f
                    /\ \A k \in 1..Len(entries) : makeFilename(entries[k][1]) = f => k <= j
        IN  IF entries[i][2].type \in {"undefined", "null"}
            THEN [type |-> "undefined"]
            ELSE GetProperty(entries[i][2], "content")]

\* The entries of a parsed value; none for null.
EntriesOf(v) == IF v.type \in {"undefined", "null"} THEN <<>> ELSE OwnEntries(v)

C16_ThreeWaySplit ==
    (/\ classified # NoOutcome
     /\ ~(record.SourceCode = "" /\ record.ABI = "Contract source code not verified")
     /\ record.CompilerVersion \notin VyperVersions)
        => /\ classified.kind = "SourceInfo"
           /\ classified.options.language = "Solidity"
           /\ classified.options.version = record.CompilerVersion
           /\ LET parsed == JSONparse(record.SourceCode)
              IN  CASE ~parsed.ok ->
                         /\ classified.sources =
                               (makeFilename(record.ContractName) :>
                                    [type |-> "string", value |-> record.SourceCode])
                         /\ classified.options.settings = FlatSettings(record)
                    [] /\ parsed.ok
                       /\ parsed.value.type = "object"
                       /\ GetProperty(parsed.value, "language")
                             = [type |-> "string", value |-> "Solidity"] ->
                         LET inputSources == GetProperty(parsed.value, "sources")
                             inputSettings == GetProperty(parsed.value, "settings")
                         IN  /\ classified.sources = ContentsByFilename(EntriesOf(inputSources))
                             /\ \A e \in {EntriesOf(inputSettings)[i] :
                                             i \in 1..Len(EntriesOf(inputSettings))} :
                                   IF e[1] = "libraries"
                                   THEN e[1] \notin DOMAIN classified.options.settings
                                   ELSE /\ e[1] \in DOMAIN classified.options.settings
                                        /\ classified.options.settings[e[1]] = e[2]
                             /\ DOMAIN classified.options.settings \subseteq
                                   {EntriesOf(inputSettings)[i][1] :
                                       i \in 1..Len(EntriesOf(inputSettings))}
                    [] OTHER ->
                         /\ classified.sources = ContentsByFilename(EntriesOf(parsed.value))
                         /\ classified.options.settings = FlatSettings(record)

(***************************************************************************)
(* C17: over any run of fetches, successful, failed or concurrent, the     *)
(* fetcher's timeout, apiKey, suffix and validity flag stay as the         *)
(* constructor set them.  The timer is the only state of the instance that *)
(* changes: it changes only in a step that dispatches a request, and each  *)
(* such step sets it once, to a timer of `timeout` ms started then.        *)
(***************************************************************************)
C17_OnlyReadyChanges ==
    [][/\ timeout' = timeout
       /\ apiKey' = apiKey
       /\ suffix' = suffix
       /\ validNetwork' = validNetwork
       /\ ready' # ready =>
             \E c \in Calls : pc[c] = "awaitReady" /\ pc'[c] = "awaitResponse"
       /\ \A c \in Calls :
             (pc[c] = "awaitReady" /\ pc'[c] = "awaitResponse") => ready' = now + timeout
      ]_vars

\* Two overlapping calls are over, one raised and one returned, and the
\* timer is the one of the latest dispatch.
C17_Witness ==
    /\ overlapped
    /\ pc[1] = "raised"
    /\ pc[2] = "returned"
    /\ ready = dispatches[2] + IntervalWithoutKey
    /\ ready > IntervalWithoutKey
    /\ timeout = IntervalWithoutKey /\ apiKey = "" /\ suffix = "" /\ validNetwork

(***************************************************************************)
(* C18: processResult is total on the records of a successful response.    *)
(* For every raw record whose fields are strings it returns null or a      *)
(* result and never throws: SourceCode that is not JSON is not an error,   *)
(* and SourceCode that parses to a value that is not an object (null, a    *)
(* number, a string, an array) gives a result too.  The code throws a      *)
(* TypeError when SourceCode is "null".                                    *)
(***************************************************************************)
C18_Total ==
    classified # NoOutcome => classified.kind \in {"null", "SourceInfo"}

(***************************************************************************)
(* C19: every fetch terminates.  When every timer fires in the end and     *)
(* every transport call settles in the end, every call that was made       *)
(* returns or raises in the end, after two dispatches at most, also when   *)
(* other calls run on the same instance: no call waits at the gate for     *)
(* ever.                                                                   *)
(***************************************************************************)
C19_Terminates ==
    /\ \A c \in Calls : (pc[c] # "idle") ~> (pc[c] \in {"returned", "raised"})
    /\ [](\A c \in Calls : Attempts(c) <= 2)

\* Two overlapping calls are both over, each after two dispatches, the
\* latest of them after a wait at the gate.
C19_Witness ==
    /\ overlapped
    /\ pc[1] \in {"returned", "raised"} /\ Len(attemptLog[1]) = 2
    /\ pc[2] \in {"returned", "raised"} /\ Len(attemptLog[2]) = 2
    /\ now >= 2 * IntervalWithoutKey
    /\ dispatches[2] = now

====
